---- MODULE Spec2Model ----
(***************************************************************************)
(* A model of Rx.py: the schema Factory (prefix table, type table,         *)
(* expand_uri, add_prefix, register_type, learn_type, make_schema), the    *)
(* range-check utility and the fourteen core validator kinds.              *)
(*                                                                         *)
(* Python values (schema documents and runtime values alike) are tagged    *)
(* records, one payload field per Python type:                             *)
(*   None      [t |-> "none"]                                              *)
(*   bool      [t |-> "bool", b |-> TRUE]                                  *)
(*   int/float [t |-> "num",  n |-> k]      the number k/2 (so that 3.5,   *)
(*                                          a non-integral number, exists) *)
(*   complex   [t |-> "complex"]            a Number with no ordering      *)
(*   str       [t |-> "str",  s |-> "..."]                                 *)
(*   list      [t |-> "list", l |-> <<...>>]                               *)
(*   dict      [t |-> "dict", d |-> [key |-> value]]                       *)
(*   class     [t |-> "class", cls |-> "IntType"]                          *)
(*   object    [t |-> "obj",  cls |-> "IntType", ...fields]                *)
(*   closure   [t |-> "func", r |-> dict]   check_range closed over r      *)
(* A call either returns a value or raises: Return(v) / Raise(e).          *)
(* Comparison and % follow Python 3.                                       *)
(***************************************************************************)
EXTENDS Integers, Sequences, FiniteSets, TLC

VARIABLES prefix_registry, type_registry, ret

vars == <<prefix_registry, type_registry, ret>>

(* ------------------------------------------------------------------ *)
(* Bounds                                                             *)
(* ------------------------------------------------------------------ *)

\* Depth of nested make_schema calls after which the interpreter gives up
\* (RecursionError); every acyclic document of the model is far shallower.
MaxDepth == 8

\* Runtime numbers offered to check_range are 0..MaxNum halves (0, 0.5, 1, ...).
MaxNum == 6

(* ------------------------------------------------------------------ *)
(* Python values                                                      *)
(* ------------------------------------------------------------------ *)

NoneV == [t |-> "none"]
B(b) == [t |-> "bool", b |-> b]
N(k) == [t |-> "num", n |-> 2 * k]
Half(h) == [t |-> "num", n |-> h]
Complex == [t |-> "complex"]
S(s) == [t |-> "str", s |-> s]
L(l) == [t |-> "list", l |-> l]
D(d) == [t |-> "dict", d |-> d]
EmptyDict == D(<<>>)
Class(c) == [t |-> "class", cls |-> c]

Return(v) == [exc |-> "None", val |-> v]
Raise(e) == [exc |-> e]
Ok(r) == r.exc = "None"

IsStr(v) == v.t = "str"
IsDict(v) == v.t = "dict"
IsList(v) == v.t = "list"
\* isinstance(v, Number): bool is a subclass of int
IsNumber(v) == v.t \in {"num", "bool", "complex"}
IsBool(v) == v.t = "bool"

\* bool(v)
Truthy(v) ==
  CASE v.t = "none" -> FALSE
    [] v.t = "bool" -> v.b
    [] v.t = "num" -> v.n # 0
    [] v.t = "str" -> v.s # ""
    [] v.t = "list" -> Len(v.l) # 0
    [] v.t = "dict" -> DOMAIN v.d # {}
    [] OTHER -> TRUE

\* d.get(k) on a registry (a mapping from strings to Python values)
Get(reg, k) == IF k \in DOMAIN reg THEN reg[k] ELSE NoneV

\* the keys (or elements) of a set in some order
RECURSIVE SetToSeq(_)
SetToSeq(A) ==
  IF A = {} THEN <<>>
  ELSE LET x == CHOOSE y \in A : TRUE IN <<x>> \o SetToSeq(A \ {x})

(* ------------------------------------------------------------------ *)
(* Regular expressions of expand_uri                                  *)
(* ------------------------------------------------------------------ *)

Lower == {"a","b","c","d","e","f","g","h","i","j","k","l","m",
          "n","o","p","q","r","s","t","u","v","w","x","y","z"}
Upper == {"A","B","C","D","E","F","G","H","I","J","K","L","M",
          "N","O","P","Q","R","S","T","U","V","W","X","Y","Z"}
Digit == {"0","1","2","3","4","5","6","7","8","9"}
\* \w
WordChar == Lower \cup Upper \cup Digit \cup {"_"}
\* [-._a-z0-9]
NameChar == Lower \cup Digit \cup {"-", ".", "_"}

Char(s, i) == SubSeq(s, i, i)

\* re.match('^\w+:', type_name)
MatchAbsolute(s) ==
  \E i \in 2..Len(s) :
    /\ Char(s, i) = ":"
    /\ \A j \in 1..(i - 1) : Char(s, j) \in WordChar

\* the position of the second slash of '^/([-._a-z0-9]*)/([-._a-z0-9]+)$', or 0
ShortSlash(s) ==
  IF Len(s) >= 3 /\ Char(s, 1) = "/"
     /\ \E k \in 2..(Len(s) - 1) :
          /\ Char(s, k) = "/"
          /\ \A j \in 2..(k - 1) : Char(s, j) \in NameChar
          /\ \A j \in (k + 1)..Len(s) : Char(s, j) \in NameChar
  THEN CHOOSE k \in 2..(Len(s) - 1) :
          /\ Char(s, k) = "/"
          /\ \A j \in 2..(k - 1) : Char(s, j) \in NameChar
          /\ \A j \in (k + 1)..Len(s) : Char(s, j) \in NameChar
  ELSE 0

(* ------------------------------------------------------------------ *)
(* Factory: the registries                                            *)
(* ------------------------------------------------------------------ *)

CoreBase == "tag:codesimply.com,2008:rx/core/"
MetaBase == "tag:codesimply.com,2008:rx/meta/"

core_types == <<"AllType", "AnyType", "ArrType", "BoolType", "DefType",
                "FailType", "IntType", "MapType", "NilType", "NumType",
                "OneType", "RecType", "SeqType", "StrType">>

subname(cls) ==
  CASE cls = "AllType" -> "all"   [] cls = "AnyType" -> "any"
    [] cls = "ArrType" -> "arr"   [] cls = "BoolType" -> "bool"
    [] cls = "DefType" -> "def"   [] cls = "FailType" -> "fail"
    [] cls = "IntType" -> "int"   [] cls = "MapType" -> "map"
    [] cls = "NilType" -> "nil"   [] cls = "NumType" -> "num"
    [] cls = "OneType" -> "one"   [] cls = "RecType" -> "rec"
    [] cls = "SeqType" -> "seq"   [] cls = "StrType" -> "str"

\* _CoreType.uri
uri(cls) == CoreBase \o subname(cls)

\* the two seeded bases exchanged
SwappedPrefixes == [p \in {"", ".meta"} |-> IF p = "" THEN MetaBase ELSE CoreBase]

DefaultPrefixes == [p \in {"", ".meta"} |-> IF p = "" THEN CoreBase ELSE MetaBase]

\* Factory.expand_uri
expand_uri(pr, type_name) ==
  IF ~IsStr(type_name) THEN Raise("TypeError")
  ELSE IF MatchAbsolute(type_name.s) THEN Return(type_name.s)
  ELSE LET k == ShortSlash(type_name.s) IN
    IF k = 0 THEN Raise("ValueError")
    ELSE LET prefix == SubSeq(type_name.s, 2, k - 1)
             suffix == SubSeq(type_name.s, k + 1, Len(type_name.s))
         IN \* the message's format string mixes '{0}' and '{}': str.format
            \* raises ValueError before the KeyError is built
            IF prefix \notin DOMAIN pr THEN Raise("ValueError")
            ELSE Return(pr[prefix] \o suffix)

\* self.prefix_registry.get(name), as a condition
PrefixTaken(pr, name) == name \in DOMAIN pr /\ pr[name] # ""

\* self.type_registry.get(uri), as a condition
TypeKnown(tr, u) == Truthy(Get(tr, u))

Put(reg, k, v) == [x \in DOMAIN reg \cup {k} |-> IF x = k THEN v ELSE reg[x]]

(* ------------------------------------------------------------------ *)
(* Util.make_range_check                                              *)
(* ------------------------------------------------------------------ *)

NegInf == [t |-> "inf", sign |-> -1]
PosInf == [t |-> "inf", sign |-> 1]

\* values Python 3 orders against a float: int, float and bool
Ordered(v) == v.t \in {"num", "bool", "inf"}

\* an ordered value as a pair compared lexicographically (halves for numbers)
Ext(v) ==
  CASE v.t = "inf" -> <<v.sign, 0>>
    [] v.t = "bool" -> <<0, IF v.b THEN 2 ELSE 0>>
    [] v.t = "num" -> <<0, v.n>>

Less(a, b) ==
  \/ Ext(a)[1] < Ext(b)[1]
  \/ Ext(a)[1] = Ext(b)[1] /\ Ext(a)[2] < Ext(b)[2]

\* an exclusive bound compared inclusively
LessThanInclusive(a, b) ==
  IF Ordered(a) /\ Ordered(b) THEN Return(~Less(b, a)) ELSE Raise("TypeError")

\* a <= b and a < b: TypeError when the operands have no ordering
LessEq(a, b) ==
  IF Ordered(a) /\ Ordered(b) THEN Return(~Less(b, a)) ELSE Raise("TypeError")

LessThan(a, b) ==
  IF Ordered(a) /\ Ordered(b) THEN Return(Less(a, b)) ELSE Raise("TypeError")

\* x and y, on calls that return a bool or raise
AndThen(x, y) == IF ~Ok(x) THEN x ELSE IF ~x.val THEN x ELSE y

\* x or y
OrElse(x, y) == IF ~Ok(x) THEN x ELSE IF x.val THEN x ELSE y

\* what a set method sees when it iterates opt
Elements(opt) ==
  CASE opt.t = "dict" -> DOMAIN opt.d
    [] opt.t = "list" ->
         {IF IsStr(opt.l[i]) THEN opt.l[i].s ELSE "?" : i \in DOMAIN opt.l}
    [] opt.t = "str" -> {Char(opt.s, i) : i \in 1..Len(opt.s)}

RangeKeys == {"min", "max", "min-ex", "max-ex"}

\* lines 23-28: the three rejections
RangeSpecLegal(keys) ==
  /\ keys \subseteq RangeKeys
  /\ ~({"min", "min-ex"} \subseteq keys)
  /\ ~({"max", "max-ex"} \subseteq keys)

make_range_check(opt) ==
  IF opt.t \notin {"dict", "list", "str"} THEN Raise("TypeError")
  ELSE IF ~RangeSpecLegal(Elements(opt)) THEN Raise("ValueError")
  ELSE IF opt.t = "str" THEN Raise("AttributeError")  \* str has no copy()
  ELSE Return([t |-> "func", r |-> opt])

\* r.get(key, default)
Bound(r, key, default) == IF key \in DOMAIN r.d THEN r.d[key] ELSE default

\* the closure check_range, applied to value
check_range(f, value) ==
  IF ~IsDict(f.r) THEN Raise("AttributeError")  \* list has no get()
  ELSE AndThen(LessEq(Bound(f.r, "min", NegInf), value),
       AndThen(LessEq(value, Bound(f.r, "max", PosInf)),
       AndThen(LessThan(Bound(f.r, "min-ex", NegInf), value),
               LessThan(value, Bound(f.r, "max-ex", PosInf)))))

(* ------------------------------------------------------------------ *)
(* make_schema and the constructors of the core types                 *)
(* ------------------------------------------------------------------ *)

Keys(schema) == DOMAIN schema.d

\* schema.get(key)
SGet(schema, key) == Get(schema.d, key)

\* iterating a Python value: Return(sequence) or TypeError
Iter(v) ==
  CASE v.t = "list" -> Return(v.l)
    [] v.t = "dict" -> Return([i \in 1..Cardinality(DOMAIN v.d) |->
                                 S(SetToSeq(DOMAIN v.d)[i])])
    [] v.t = "str" -> Return([i \in 1..Len(v.s) |-> S(Char(v.s, i))])
    [] OTHER -> Raise("TypeError")

\* value % 1 == 0
Integral(v) ==
  CASE v.t = "num" -> Return(v.n % 2 = 0)
    [] v.t = "bool" -> Return(TRUE)
    [] OTHER -> Raise("TypeError")

\* a == b
Eq(a, b) == IF Ordered(a) /\ Ordered(b) THEN Ext(a) = Ext(b) ELSE a = b

\* the check of line 117 left out
ComposedArgumentsIgnored(schema) == TRUE

\* line 117: a reference to a learned type carries no other key
ComposedTakesNoArguments(schema) == Keys(schema) \subseteq {"type"}

RECURSIVE make_schema(_, _, _, _)
RECURSIVE make_schemas(_, _, _, _)
RECURSIVE make_fields(_, _, _, _, _, _)

\* [rx.make_schema(s) for s in seq]
make_schemas(pr, tr, seq, depth) ==
  IF seq = <<>> THEN Return(<<>>)
  ELSE LET h == make_schema(pr, tr, Head(seq), depth) IN
    IF ~Ok(h) THEN h
    ELSE LET rest == make_schemas(pr, tr, Tail(seq), depth) IN
      IF ~Ok(rest) THEN rest ELSE Return(<<h.val>> \o rest.val)

\* the inner loop of RecType.__init__ over the fields of one of
\* 'required', 'optional': Return([known, made]) or the first error
make_fields(pr, tr, d, fields, acc, depth) ==
  IF fields = <<>> THEN Return(acc)
  ELSE LET field == Head(fields) IN
    IF field \in acc.known THEN Raise("SchemaError")
    ELSE LET m == make_schema(pr, tr, d.d[field], depth) IN
      IF ~Ok(m) THEN m
      ELSE make_fields(pr, tr, d, Tail(fields),
                       [known |-> acc.known \cup {field},
                        made |-> Put(acc.made, field, m.val)], depth)

\* _CoreType.__init__, inherited by bool, def, fail, nil and one
CoreType_init(cls, schema) ==
  IF ~(Keys(schema) \subseteq {"type"}) THEN Raise("SchemaError")
  ELSE Return([t |-> "obj", cls |-> cls])

AllType_init(schema, pr, tr, depth) ==
  IF ~(Keys(schema) \subseteq {"type", "of"}) THEN Raise("SchemaError")
  ELSE IF ~Truthy(SGet(schema, "of")) THEN Raise("SchemaError")
  ELSE LET it == Iter(schema.d["of"]) IN
    IF ~Ok(it) THEN it
    ELSE LET alts == make_schemas(pr, tr, it.val, depth) IN
      IF ~Ok(alts) THEN alts
      ELSE Return([t |-> "obj", cls |-> "AllType", alts |-> L(alts.val)])

AnyType_init(schema, pr, tr, depth) ==
  IF ~(Keys(schema) \subseteq {"type", "of"}) THEN Raise("SchemaError")
  ELSE IF "of" \notin Keys(schema)
    THEN Return([t |-> "obj", cls |-> "AnyType", alts |-> NoneV])
  ELSE IF ~Truthy(schema.d["of"]) THEN Raise("SchemaError")
  ELSE LET it == Iter(schema.d["of"]) IN
    IF ~Ok(it) THEN it
    ELSE LET alts == make_schemas(pr, tr, it.val, depth) IN
      IF ~Ok(alts) THEN alts
      ELSE Return([t |-> "obj", cls |-> "AnyType", alts |-> L(alts.val)])

ArrType_init(schema, pr, tr, depth) ==
  IF ~(Keys(schema) \subseteq {"type", "contents", "length"})
    THEN Raise("SchemaError")
  ELSE IF ~Truthy(SGet(schema, "contents")) THEN Raise("SchemaError")
  ELSE LET c == make_schema(pr, tr, schema.d["contents"], depth) IN
    IF ~Ok(c) THEN c
    ELSE IF ~Truthy(SGet(schema, "length"))
      THEN Return([t |-> "obj", cls |-> "ArrType",
                   content_schema |-> c.val, length |-> NoneV])
    ELSE LET rc == make_range_check(schema.d["length"]) IN
      IF ~Ok(rc) THEN rc
      ELSE Return([t |-> "obj", cls |-> "ArrType",
                   content_schema |-> c.val, length |-> rc.val])

IntType_init(schema) ==
  IF ~(Keys(schema) \subseteq {"type", "range", "value"})
    THEN Raise("SchemaError")
  ELSE LET hasv == "value" \in Keys(schema)
           i == IF hasv /\ IsNumber(schema.d["value"])
                THEN Integral(schema.d["value"]) ELSE Return(TRUE)
       IN
    IF hasv /\ ~IsNumber(schema.d["value"]) THEN Raise("SchemaError")
    ELSE IF ~Ok(i) THEN i
    ELSE IF ~i.val THEN Raise("SchemaError")
    ELSE LET value == IF hasv THEN schema.d["value"] ELSE NoneV IN
      IF "range" \notin Keys(schema)
        THEN Return([t |-> "obj", cls |-> "IntType",
                     value |-> value, range |-> NoneV])
      ELSE LET rc == make_range_check(schema.d["range"]) IN
        IF ~Ok(rc) THEN rc
        ELSE Return([t |-> "obj", cls |-> "IntType",
                     value |-> value, range |-> rc.val])

MapType_init(schema, pr, tr, depth) ==
  IF ~(Keys(schema) \subseteq {"type", "values"}) THEN Raise("SchemaError")
  ELSE IF ~Truthy(SGet(schema, "values")) THEN Raise("SchemaError")
  ELSE LET v == make_schema(pr, tr, schema.d["values"], depth) IN
    IF ~Ok(v) THEN v
    ELSE Return([t |-> "obj", cls |-> "MapType", value_schema |-> v.val])

NumType_init(schema) ==
  IF ~(Keys(schema) \subseteq {"type", "range", "value"})
    THEN Raise("SchemaError")
  ELSE IF "value" \in Keys(schema) /\ ~IsNumber(schema.d["value"])
    THEN Raise("SchemaError")
  ELSE LET value == IF "value" \in Keys(schema)
                    THEN schema.d["value"] ELSE NoneV IN
    IF ~Truthy(SGet(schema, "range"))
      THEN Return([t |-> "obj", cls |-> "NumType",
                   value |-> value, range |-> NoneV])
    ELSE LET rc == make_range_check(schema.d["range"]) IN
      IF ~Ok(rc) THEN rc
      ELSE Return([t |-> "obj", cls |-> "NumType",
                   value |-> value, range |-> rc.val])

\* schema.get(which, {}).keys(), in the order the loop visits them
FieldsOf(schema, which) ==
  IF which \notin Keys(schema) THEN Return(<<>>)
  ELSE IF ~IsDict(schema.d[which]) THEN Raise("AttributeError")
  ELSE Return(SetToSeq(DOMAIN schema.d[which].d))

RecType_init(schema, pr, tr, depth) ==
  IF ~(Keys(schema) \subseteq {"type", "rest", "required", "optional"})
    THEN Raise("SchemaError")
  ELSE LET rest == IF Truthy(SGet(schema, "rest"))
                   THEN make_schema(pr, tr, schema.d["rest"], depth)
                   ELSE Return(NoneV)
           rf == FieldsOf(schema, "required")
       IN
    IF ~Ok(rest) THEN rest
    ELSE IF ~Ok(rf) THEN rf
    ELSE LET req == IF rf.val = <<>> THEN Return([known |-> {}, made |-> <<>>])
                    ELSE make_fields(pr, tr, schema.d["required"], rf.val,
                                     [known |-> {}, made |-> <<>>], depth)
             of == FieldsOf(schema, "optional")
         IN
      IF ~Ok(req) THEN req
      ELSE IF ~Ok(of) THEN of
      ELSE LET opt == IF of.val = <<>>
                      THEN Return([known |-> req.val.known, made |-> <<>>])
                      ELSE make_fields(pr, tr, schema.d["optional"], of.val,
                                       [known |-> req.val.known, made |-> <<>>],
                                       depth)
           IN
        IF ~Ok(opt) THEN opt
        ELSE Return([t |-> "obj", cls |-> "RecType",
                     known |-> opt.val.known, rest_schema |-> rest.val,
                     required |-> req.val.made, optional |-> opt.val.made])

SeqType_init(schema, pr, tr, depth) ==
  IF ~(Keys(schema) \subseteq {"type", "contents", "tail"})
    THEN Raise("SchemaError")
  ELSE IF ~Truthy(SGet(schema, "contents")) THEN Raise("SchemaError")
  ELSE LET it == Iter(schema.d["contents"]) IN
    IF ~Ok(it) THEN it
    ELSE LET cs == make_schemas(pr, tr, it.val, depth) IN
      IF ~Ok(cs) THEN cs
      ELSE IF ~Truthy(SGet(schema, "tail"))
        THEN Return([t |-> "obj", cls |-> "SeqType",
                     content_schema |-> cs.val, tail_schema |-> NoneV])
      ELSE LET tl == make_schema(pr, tr, schema.d["tail"], depth) IN
        IF ~Ok(tl) THEN tl
        ELSE Return([t |-> "obj", cls |-> "SeqType",
                     content_schema |-> cs.val, tail_schema |-> tl.val])

StrType_init(schema) ==
  IF ~(Keys(schema) \subseteq {"type", "value", "length"})
    THEN Raise("SchemaError")
  ELSE IF "value" \in Keys(schema) /\ ~IsStr(schema.d["value"])
    THEN Raise("SchemaError")
  ELSE LET value == IF "value" \in Keys(schema)
                    THEN schema.d["value"] ELSE NoneV IN
    IF "length" \notin Keys(schema)
      THEN Return([t |-> "obj", cls |-> "StrType",
                   value |-> value, length |-> NoneV])
    ELSE LET rc == make_range_check(schema.d["length"]) IN
      IF ~Ok(rc) THEN rc
      ELSE Return([t |-> "obj", cls |-> "StrType",
                   value |-> value, length |-> rc.val])

\* type_class(schema, self)
Instantiate(cls, schema, pr, tr, depth) ==
  CASE cls = "AllType" -> AllType_init(schema, pr, tr, depth)
    [] cls = "AnyType" -> AnyType_init(schema, pr, tr, depth)
    [] cls = "ArrType" -> ArrType_init(schema, pr, tr, depth)
    [] cls = "IntType" -> IntType_init(schema)
    [] cls = "MapType" -> MapType_init(schema, pr, tr, depth)
    [] cls = "NumType" -> NumType_init(schema)
    [] cls = "RecType" -> RecType_init(schema, pr, tr, depth)
    [] cls = "SeqType" -> SeqType_init(schema, pr, tr, depth)
    [] cls = "StrType" -> StrType_init(schema)
    [] OTHER -> CoreType_init(cls, schema)

\* Factory.make_schema; depth counts the make_schema calls on the stack
make_schema(pr, tr, schema0, depth) ==
  IF depth > MaxDepth THEN Raise("RecursionError")
  ELSE LET schema == IF IsStr(schema0) THEN D([type |-> schema0]) ELSE schema0 IN
    IF ~IsDict(schema) THEN Raise("SchemaError")
    ELSE IF "type" \notin Keys(schema) THEN Raise("KeyError")
    ELSE LET u == expand_uri(pr, schema.d["type"]) IN
      IF ~Ok(u) THEN u
      ELSE IF ~TypeKnown(tr, u.val) THEN Raise("SchemaError")
      ELSE LET type_class == tr[u.val] IN
        IF IsDict(type_class)
        THEN IF ~ComposedTakesNoArguments(schema) THEN Raise("SchemaError")
             ELSE make_schema(pr, tr, type_class.d["schema"], depth + 1)
        ELSE Instantiate(type_class.cls, schema, pr, tr, depth + 1)

(* ------------------------------------------------------------------ *)
(* check                                                              *)
(* ------------------------------------------------------------------ *)

\* len(value) of a list or a str
PyLen(value) == IF IsList(value) THEN N(Len(value.l)) ELSE N(Len(value.s))

\* the dict value restricted to keys
Restrict(value, keys) == D([k \in keys |-> value.d[k]])

\* a dict's values(), in the order the loop visits them
Values(value) ==
  [i \in 1..Cardinality(DOMAIN value.d) |-> value.d[SetToSeq(DOMAIN value.d)[i]]]

RECURSIVE check(_, _)
RECURSIVE check_all(_, _)
RECURSIVE check_any(_, _)
RECURSIVE check_each(_, _)
RECURSIVE check_positions(_, _, _)
RECURSIVE check_fields(_, _, _, _)
RECURSIVE check_fields_present_only(_, _, _, _)

\* all(schema.check(value) for schema in schemas)
check_all(schemas, value) ==
  IF schemas = <<>> THEN Return(TRUE)
  ELSE AndThen(check(Head(schemas), value), check_all(Tail(schemas), value))

\* any(schema.check(value) for schema in schemas)
check_any(schemas, value) ==
  IF schemas = <<>> THEN Return(FALSE)
  ELSE OrElse(check(Head(schemas), value), check_any(Tail(schemas), value))

\* all(schema.check(item) for item in items)
check_each(schema, items) ==
  IF items = <<>> THEN Return(TRUE)
  ELSE AndThen(check(schema, Head(items)), check_each(schema, Tail(items)))

\* SeqType.check, lines 394-396, from position i on
check_positions(schemas, items, i) ==
  IF i > Len(schemas) THEN Return(TRUE)
  ELSE AndThen(check(schemas[i], items[i]), check_positions(schemas, items, i + 1))

\* the loop of lines 355-357 without its 'field not in value' test
check_fields_present_only(made, fields, value, must) ==
  IF fields = <<>> THEN Return(TRUE)
  ELSE LET field == Head(fields) IN
    IF field \notin DOMAIN value.d
    THEN check_fields_present_only(made, Tail(fields), value, must)
    ELSE AndThen(check(made[field], value.d[field]),
                 check_fields_present_only(made, Tail(fields), value, must))

\* RecType.check, lines 355-362: the loop over required (must = TRUE) or
\* optional (must = FALSE) fields
check_fields(made, fields, value, must) ==
  IF fields = <<>> THEN Return(TRUE)
  ELSE LET field == Head(fields) IN
    IF field \notin DOMAIN value.d
    THEN IF must THEN Return(FALSE)
         ELSE check_fields(made, Tail(fields), value, must)
    ELSE AndThen(check(made[field], value.d[field]),
                 check_fields(made, Tail(fields), value, must))

\* RecType.check, line 353: unknown keys and no rest schema
RejectsUnknown(self, unknown) == unknown # {} /\ ~Truthy(self.rest_schema)

RecType_check(self, value) ==
  IF ~IsDict(value) THEN Return(FALSE)
  ELSE LET unknown == DOMAIN value.d \ self.known IN
    IF RejectsUnknown(self, unknown) THEN Return(FALSE)
    ELSE AndThen(check_fields(self.required, SetToSeq(DOMAIN self.required),
                              value, TRUE),
         AndThen(check_fields(self.optional, SetToSeq(DOMAIN self.optional),
                              value, FALSE),
                 IF unknown # {}
                 THEN check(self.rest_schema, Restrict(value, unknown))
                 ELSE Return(TRUE)))

SeqType_check(self, value) ==
  IF ~IsList(value) THEN Return(FALSE)
  ELSE IF Len(value.l) < Len(self.content_schema) THEN Return(FALSE)
  ELSE AndThen(check_positions(self.content_schema, value.l, 1),
         IF Len(value.l) > Len(self.content_schema)
         THEN IF ~Truthy(self.tail_schema) THEN Return(FALSE)
              ELSE check(self.tail_schema,
                         L(SubSeq(value.l, Len(self.content_schema) + 1,
                                  Len(value.l))))
         ELSE Return(TRUE))

IntType_check(self, value) ==
  AndThen(Return(IsNumber(value)),
  AndThen(Return(~IsBool(value)),
  AndThen(Integral(value),
  AndThen(IF self.range = NoneV THEN Return(TRUE)
          ELSE check_range(self.range, value),
          Return(self.value = NoneV \/ Eq(value, self.value))))))

NumType_check(self, value) ==
  AndThen(Return(IsNumber(value)),
  AndThen(Return(~IsBool(value)),
  AndThen(IF self.range = NoneV THEN Return(TRUE)
          ELSE check_range(self.range, value),
          Return(self.value = NoneV \/ Eq(value, self.value)))))

StrType_check(self, value) ==
  AndThen(Return(IsStr(value)),
  AndThen(Return(self.value = NoneV \/ Eq(value, self.value)),
          IF self.length = NoneV THEN Return(TRUE)
          ELSE check_range(self.length, PyLen(value))))

ArrType_check(self, value) ==
  AndThen(Return(IsList(value)),
  AndThen(IF ~Truthy(self.length) THEN Return(TRUE)
          ELSE check_range(self.length, PyLen(value)),
          check_each(self.content_schema, value.l)))

\* validator.check(value): Return(TRUE), Return(FALSE) or Raise(e)
check(self, value) ==
  CASE self.t # "obj" -> Raise("AttributeError")
    [] self.cls = "AllType" -> check_all(self.alts.l, value)
    [] self.cls = "AnyType" ->
         IF self.alts = NoneV THEN Return(TRUE)
         ELSE check_any(self.alts.l, value)
    [] self.cls = "ArrType" -> ArrType_check(self, value)
    [] self.cls = "BoolType" -> Return(IsBool(value))
    [] self.cls = "DefType" -> Return(value # NoneV)
    [] self.cls = "FailType" -> Return(FALSE)
    [] self.cls = "IntType" -> IntType_check(self, value)
    [] self.cls = "MapType" ->
         AndThen(Return(IsDict(value)),
                 check_each(self.value_schema, Values(value)))
    [] self.cls = "NilType" -> Return(value = NoneV)
    [] self.cls = "NumType" -> NumType_check(self, value)
    [] self.cls = "OneType" -> Return(IsNumber(value) \/ IsStr(value))
    [] self.cls = "RecType" -> RecType_check(self, value)
    [] self.cls = "SeqType" -> SeqType_check(self, value)
    [] self.cls = "StrType" -> StrType_check(self, value)

(* ------------------------------------------------------------------ *)
(* Inputs of the calls                                                *)
(* ------------------------------------------------------------------ *)

PrefixNames == {"", "x"}
Bases == {"", "u:"}
RegisteredKinds == {"IntType", "StrType"}
LearnURIs == {"a", "u:a", uri("IntType")}
LearnDocs ==
  { S("//int"), S("//str"), S("/x/a"), S("//nope"),
    D([type |-> S("//arr"), contents |-> S("/x/a")]) }
TypeNames == {"//str", "/str", "/foo/str", "/x/a", "/.meta/a", "u:a", "str", ""}
RefDocs ==
  { S("u:a"), S("/x/a"), S("//int"),
    D([type |-> S("u:a"), value |-> N(1)]),
    D([type |-> S("/x/a"), range |-> EmptyDict]),
    D([type |-> S("//int"), value |-> N(1)]) }

\* documents compiled on a fresh Factory, and the values checked against them
IntStr == [a |-> S("//int")]
OptStr == [b |-> S("//str")]
CheckDocs ==
  { S("//int"), S("//num"), S("//str"), S("//bool"), S("//nil"), S("//def"),
    S("//one"), S("//fail"), S("//any"),
    D([type |-> S("//int"), value |-> N(1)]),
    D([type |-> S("//int"), range |-> D([min |-> N(1), max |-> N(2)])]),
    D([type |-> S("//int"), range |-> D([min |-> S("a")])]),
    D([type |-> S("//int"), range |-> L(<<>>)]),
    D([type |-> S("//num"), range |-> D([max |-> N(2)])]),
    D([type |-> S("//str"), length |-> D([min |-> N(1)])]),
    D([type |-> S("//all"), of |-> L(<<S("//int"), S("//def")>>)]),
    D([type |-> S("//any"), of |-> L(<<S("//int"), S("//str")>>)]),
    D([type |-> S("//arr"), contents |-> S("//int"),
       length |-> D([max |-> N(2)])]),
    D([type |-> S("//map"), values |-> S("//int")]),
    D([type |-> S("//seq"), contents |-> L(<<S("//int"), S("//str")>>)]),
    D([type |-> S("//seq"), contents |-> L(<<S("//int"), S("//str")>>),
       tail |-> D([type |-> S("//arr"), contents |-> S("//int")])]),
    D([type |-> S("//rec"), required |-> D(IntStr), optional |-> D(OptStr)]),
    D([type |-> S("//rec"), required |-> D(IntStr), optional |-> D(OptStr),
       rest |-> D([type |-> S("//any")])]),
    D([type |-> S("//rec"), required |-> D(IntStr),
       rest |-> D([type |-> S("//map"), values |-> S("//int")])]),
    D([type |-> S("//rec"), required |-> D(IntStr), optional |-> D(IntStr)]),
    D([type |-> S("//rec")]),
    D([type |-> S("//int"), rest |-> S("//any")]) }
CheckValues ==
  { NoneV, B(TRUE), N(1), N(2), N(3), Half(7), Complex, S("x"), S(""),
    L(<<>>), L(<<N(1)>>), L(<<N(1), S("x")>>), L(<<N(1), S("x"), N(2)>>),
    L(<<N(1), N(1), N(1)>>),
    EmptyDict, D([a |-> N(1)]), D([a |-> N(1), c |-> N(2)]),
    D([a |-> N(1), b |-> S("x")]), D([a |-> N(1), b |-> N(2)]),
    D([a |-> S("x")]), D([c |-> N(2)]), D([a |-> N(1), c |-> S("x")]),
    D([b |-> S("x")]) }

\* bounds specifications handed to make_range_check, and the numbers tried
RangeKeyInputs == RangeKeys \cup {"step"}
BoundValues == {N(1), N(2), S("a")}
RangeOpts ==
  UNION { {D(f) : f \in [K -> BoundValues]} : K \in SUBSET RangeKeyInputs }
RangeValues == {Half(h) : h \in 0..MaxNum} \cup {Complex}

(* ------------------------------------------------------------------ *)
(* The calls                                                          *)
(* ------------------------------------------------------------------ *)

\* Factory.__init__
Init ==
  \E register_core_types \in BOOLEAN :
    /\ prefix_registry = DefaultPrefixes
    /\ type_registry =
         IF register_core_types
         THEN [u \in {uri(core_types[i]) : i \in DOMAIN core_types} |->
                 Class(CHOOSE c \in {core_types[i] : i \in DOMAIN core_types} :
                         uri(c) = u)]
         ELSE <<>>
    /\ ret = [op |-> "__init__", register_core_types |-> register_core_types,
              out |-> Return(NoneV)]

add_prefix(name, base) ==
  IF PrefixTaken(prefix_registry, name)
  THEN /\ ret' = [op |-> "add_prefix", name |-> name, base |-> base,
                  out |-> Raise("SchemaError")]
       /\ UNCHANGED <<prefix_registry, type_registry>>
  ELSE /\ prefix_registry' = Put(prefix_registry, name, base)
       /\ ret' = [op |-> "add_prefix", name |-> name, base |-> base,
                  out |-> Return(NoneV)]
       /\ UNCHANGED type_registry

\* the test of line 85 left out
NeverRegistered(tr, t_uri) == FALSE

\* line 85: t_uri in self.type_registry
AlreadyRegistered(tr, t_uri) == t_uri \in DOMAIN tr

register_type(cls) ==
  IF AlreadyRegistered(type_registry, uri(cls))
  THEN /\ ret' = [op |-> "register_type", uri |-> uri(cls),
                  out |-> Raise("ValueError")]
       /\ UNCHANGED <<prefix_registry, type_registry>>
  ELSE /\ type_registry' = Put(type_registry, uri(cls), Class(cls))
       /\ ret' = [op |-> "register_type", uri |-> uri(cls),
                  out |-> Return(NoneV)]
       /\ UNCHANGED prefix_registry

\* learn_type storing the document before it validates it
learn_type_stores_first(u, schema) ==
  LET made == make_schema(prefix_registry, type_registry, schema, 1) IN
  IF TypeKnown(type_registry, u)
  THEN /\ ret' = [op |-> "learn_type", uri |-> u, schema |-> schema,
                  out |-> Raise("SchemaError")]
       /\ UNCHANGED <<prefix_registry, type_registry>>
  ELSE /\ type_registry' = Put(type_registry, u, D([schema |-> schema]))
       /\ ret' = [op |-> "learn_type", uri |-> u, schema |-> schema,
                  out |-> IF Ok(made) THEN Return(NoneV) ELSE Raise(made.exc)]
       /\ UNCHANGED prefix_registry

learn_type(u, schema) ==
  LET made == make_schema(prefix_registry, type_registry, schema, 1) IN
  IF TypeKnown(type_registry, u)
  THEN /\ ret' = [op |-> "learn_type", uri |-> u, schema |-> schema,
                  out |-> Raise("SchemaError")]
       /\ UNCHANGED <<prefix_registry, type_registry>>
  ELSE IF ~Ok(made)
  THEN /\ ret' = [op |-> "learn_type", uri |-> u, schema |-> schema,
                  out |-> Raise(made.exc)]
       /\ UNCHANGED <<prefix_registry, type_registry>>
  ELSE /\ type_registry' = Put(type_registry, u, D([schema |-> schema]))
       /\ ret' = [op |-> "learn_type", uri |-> u, schema |-> schema,
                  out |-> Return(NoneV)]
       /\ UNCHANGED prefix_registry

Call_expand_uri(type_name) ==
  /\ ret' = [op |-> "expand_uri", type_name |-> type_name,
             out |-> expand_uri(prefix_registry, S(type_name))]
  /\ UNCHANGED <<prefix_registry, type_registry>>

Call_make_schema(schema) ==
  /\ ret' = [op |-> "make_schema", schema |-> schema,
             out |-> make_schema(prefix_registry, type_registry, schema, 1)]
  /\ UNCHANGED <<prefix_registry, type_registry>>

\* the validator the caller holds: the last one make_schema returned
Held ==
  IF ret.op = "make_schema" /\ Ok(ret.out) THEN {ret.out.val}
  ELSE IF ret.op = "check" THEN {ret.self}
  ELSE {}

Call_check(value) ==
  \E self \in Held :
    /\ ret' = [op |-> "check", self |-> self, value |-> value,
               out |-> check(self, value)]
    /\ UNCHANGED <<prefix_registry, type_registry>>

Call_make_range_check(opt) ==
  /\ ret' = [op |-> "make_range_check", opt |-> opt,
             out |-> make_range_check(opt)]
  /\ UNCHANGED <<prefix_registry, type_registry>>

\* the predicate the caller holds: the last one make_range_check returned
HeldRange ==
  IF ret.op = "make_range_check" /\ Ok(ret.out) THEN {ret.out.val}
  ELSE IF ret.op = "check_range" THEN {ret.f}
  ELSE {}

Call_check_range(value) ==
  \E f \in HeldRange :
    /\ ret' = [op |-> "check_range", f |-> f, value |-> value,
               out |-> check_range(f, value)]
    /\ UNCHANGED <<prefix_registry, type_registry>>

(* ------------------------------------------------------------------ *)
(* Specifications                                                     *)
(* ------------------------------------------------------------------ *)

\* the registry: setup calls, name resolution and compilation of references
Next ==
  \/ \E name \in PrefixNames, base \in Bases : add_prefix(name, base)
  \/ \E cls \in RegisteredKinds : register_type(cls)
  \/ \E u \in LearnURIs, schema \in LearnDocs : learn_type(u, schema)
  \/ \E type_name \in TypeNames : Call_expand_uri(type_name)
  \/ \E schema \in RefDocs : Call_make_schema(schema)

Spec == Init /\ [][Next]_vars

\* compiling and checking on a Factory with the core types
InitCheck == Init /\ ret.register_core_types

NextCheck ==
  \/ \E schema \in CheckDocs : Call_make_schema(schema)
  \/ \E value \in CheckValues : Call_check(value)

SpecCheck == InitCheck /\ [][NextCheck]_vars

\* the range-check utility on its own
NextRange ==
  \/ \E opt \in RangeOpts : Call_make_range_check(opt)
  \/ \E value \in RangeValues : Call_check_range(value)

SpecRange == InitCheck /\ [][NextRange]_vars

(* ------------------------------------------------------------------ *)
(* Properties                                                         *)
(* ------------------------------------------------------------------ *)

Accepts(self, value) == check(self, value) = Return(TRUE)

Compile(schema) == make_schema(prefix_registry, type_registry, schema, 1)

Learned(tr) == {u \in DOMAIN tr : IsDict(tr[u])}

\* every type name a schema document mentions, nested documents included
RECURSIVE DocNames(_)
DocNames(doc) ==
  CASE IsStr(doc) -> {doc.s}
    [] IsList(doc) -> UNION {DocNames(doc.l[i]) : i \in DOMAIN doc.l}
    [] IsDict(doc) ->
         UNION { CASE k = "type" -> DocNames(doc.d[k])
                   [] k \in {"of", "contents", "values", "rest", "tail"} ->
                        DocNames(doc.d[k])
                   [] k \in {"required", "optional"} /\ IsDict(doc.d[k]) ->
                        UNION {DocNames(doc.d[k].d[f]) : f \in DOMAIN doc.d[k].d}
                   [] OTHER -> {}
                 : k \in DOMAIN doc.d }
    [] OTHER -> {}

\* the URIs the document learned under u resolves to, under prefix table pr
References(pr, tr, u) ==
  {expand_uri(pr, S(n)).val :
     n \in {m \in DocNames(tr[u].d["schema"]) : Ok(expand_uri(pr, S(m)))}}

\* the learned URIs reachable from the set from in at most n reference steps
RECURSIVE Reach(_, _, _, _)
Reach(pr, tr, from, n) ==
  IF n = 0 THEN from
  ELSE Reach(pr, tr,
             from \cup UNION {References(pr, tr, v) \cap Learned(tr) :
                               v \in from \cap Learned(tr)},
             n - 1)

\* C1: check(value) on a validator that make_schema returned gives true or
\* false and never raises, whatever the type of the bounds of an accepted
\* range and whatever kind of number the value is.
C1_CheckNeverRaises == ret.op = "check" => Ok(ret.out)

\* C2: add_prefix(name, base2) on a name already in the prefix table (its
\* first base empty or not) fails and leaves the table as it was.
C2_PrefixRegisteredOnce ==
  [][(ret'.op = "add_prefix" /\ ret'.name \in DOMAIN prefix_registry)
       => (~Ok(ret'.out) /\ prefix_registry' = prefix_registry)]_vars

\* C3: a URI in the type table keeps the entry of its first registration:
\* register_type and learn_type on a URI already in the table (built-in or
\* learned) fail and leave the type table unchanged.
C3_TypeRegisteredOnce ==
  [][/\ \A u \in DOMAIN type_registry :
          u \in DOMAIN type_registry' /\ type_registry'[u] = type_registry[u]
     /\ (ret'.op \in {"register_type", "learn_type"}
           /\ ret'.uri \in DOMAIN type_registry)
          => (~Ok(ret'.out) /\ type_registry' = type_registry)]_vars

\* register_type has just failed on the URI of a learned type
C3_Witness ==
  /\ ret.op = "register_type"
  /\ ~Ok(ret.out)
  /\ ret.uri \in Learned(type_registry)

\* C4: learn_type(uri, doc) stores doc only if make_schema(doc) succeeds in
\* the registries before the call; when doc does not compile the call fails,
\* uri is not registered, and both tables are unchanged.
C4_LearnValidates ==
  [][ret'.op = "learn_type" =>
       LET compiles == Ok(Compile(ret'.schema)) IN
       /\ ~compiles =>
            /\ ~Ok(ret'.out)
            /\ prefix_registry' = prefix_registry
            /\ type_registry' = type_registry
       /\ ret'.uri \notin DOMAIN type_registry /\ ~compiles
            => ret'.uri \notin DOMAIN type_registry'
       /\ type_registry' # type_registry => compiles]_vars

\* learn_type has just failed on a free URI with a document that does not compile
C4_Witness ==
  /\ ret.op = "learn_type"
  /\ ret.uri \notin DOMAIN type_registry
  /\ ~Ok(Compile(ret.schema))
  /\ ret.out = Raise("SchemaError")

\* C5, as claimed: on a fresh Factory '/str' resolves to the core str URI.
C5_SlashStr ==
  (ret.op = "expand_uri" /\ prefix_registry = DefaultPrefixes
     /\ ret.type_name = "/str")
    => ret.out = Return("tag:codesimply.com,2008:rx/core/str")

\* C5, amended: on a fresh Factory the shorthand with the empty prefix is
\* '//str' (nothing between the two slashes), which resolves to the core str
\* URI; '/str' does not match the shorthand grammar and expand_uri raises
\* ValueError.
C5_DoubleSlashStr ==
  (ret.op = "expand_uri" /\ prefix_registry = DefaultPrefixes) =>
    /\ ret.type_name = "//str"
         => ret.out = Return("tag:codesimply.com,2008:rx/core/str")
    /\ ret.type_name = "/str" => ret.out = Raise("ValueError")

\* expand_uri('//str') has just returned on a Factory with the seeded prefixes
C5_Witness ==
  /\ ret.op = "expand_uri"
  /\ prefix_registry = DefaultPrefixes
  /\ ret.type_name = "//str"
  /\ Ok(ret.out)

\* the learned entry a schema document's type resolves to, if any
LearnedTarget(schema) ==
  LET doc == IF IsStr(schema) THEN D([type |-> schema]) ELSE schema
      u == expand_uri(prefix_registry, doc.d["type"])
  IN IF Ok(u) /\ u.val \in Learned(type_registry) THEN {u.val} ELSE {}

\* C6: when a document's type resolves to a learned type, make_schema fails
\* with SchemaError if the document has a key other than 'type'; otherwise
\* its outcome is that of compiling the stored document, and the validator it
\* returns accepts exactly the values the directly compiled one accepts.
C6_LearnedReference ==
  ret.op = "make_schema" =>
    \A u \in LearnedTarget(ret.schema) :
      LET direct == Compile(type_registry[u].d["schema"]) IN
      IF IsDict(ret.schema) /\ DOMAIN ret.schema.d # {"type"}
      THEN ret.out = Raise("SchemaError")
      ELSE /\ ret.out.exc = direct.exc
           /\ Ok(direct) =>
                \A value \in CheckValues :
                  check(ret.out.val, value) = check(direct.val, value)

\* make_schema has just compiled a reference to a learned type
C6_Witness ==
  /\ ret.op = "make_schema"
  /\ LearnedTarget(ret.schema) # {}
  /\ Ok(ret.out)

\* the fields a rec document lists under which ('required' or 'optional')
DocFields(doc, which) ==
  IF which \in DOMAIN doc.d THEN doc.d[which].d ELSE <<>>

\* the condition of C7 on a rec document and a value
RecCondition(doc, value) ==
  LET required == DocFields(doc, "required")
      optional == DocFields(doc, "optional")
  IN /\ IsDict(value)
     /\ \A f \in DOMAIN required :
          f \in DOMAIN value.d /\ Accepts(Compile(required[f]).val, value.d[f])
     /\ \A f \in DOMAIN optional \cap DOMAIN value.d :
          Accepts(Compile(optional[f]).val, value.d[f])
     /\ LET unknown == DOMAIN value.d \ (DOMAIN required \cup DOMAIN optional)
        IN \/ unknown = {}
           \/ /\ "rest" \in DOMAIN doc.d
              /\ Accepts(Compile(doc.d["rest"]).val, Restrict(value, unknown))

RecDocs == {doc \in CheckDocs : IsDict(doc) /\ doc.d["type"] = S("//rec")}

RecClosed ==
  D([type |-> S("//rec"), required |-> D(IntStr), optional |-> D(OptStr)])
RecOpen ==
  D([type |-> S("//rec"), required |-> D(IntStr), optional |-> D(OptStr),
     rest |-> D([type |-> S("//any")])])

\* C7: a compiled rec validator accepts a value exactly when the value is a
\* mapping, every required field is present and satisfies its schema, every
\* optional field present satisfies its schema, and the keys outside
\* required and optional are none, or 'rest' was given and the sub-mapping of
\* those keys satisfies it; {a:1,c:2} is rejected without rest and accepted
\* with rest of type any.
C7_RecAccepts ==
  ret.op = "check" =>
    /\ \A doc \in RecDocs :
         Compile(doc) = Return(ret.self)
           => (ret.out = Return(TRUE) <=> RecCondition(doc, ret.value))
    /\ ret.value = D([a |-> N(1), c |-> N(2)]) =>
         /\ Compile(RecClosed) = Return(ret.self) => ret.out = Return(FALSE)
         /\ Compile(RecOpen) = Return(ret.self) => ret.out = Return(TRUE)

\* the open record has just accepted {a:1, c:2}
C7_Witness ==
  /\ ret.op = "check"
  /\ Compile(RecOpen) = Return(ret.self)
  /\ ret.value = D([a |-> N(1), c |-> N(2)])
  /\ ret.out = Return(TRUE)

C9_NoLearnedCycle ==
  \A u \in Learned(type_registry) :
    /\ u \notin Reach(prefix_registry, type_registry,
                      References(prefix_registry, type_registry, u),
                      Cardinality(LearnURIs))
    /\ Compile(type_registry[u].d["schema"]) # Raise("RecursionError")

\* C10: once learn_type(uri, doc) has succeeded, the stored document compiles
\* in every later registry state and its type names keep resolving to the
\* URIs they resolved to before.
C10_LearnedStaysUsable ==
  [][\A u \in Learned(type_registry) :
       /\ u \in Learned(type_registry')
       /\ Ok(make_schema(prefix_registry', type_registry',
                         type_registry'[u].d["schema"], 1))
       /\ \A n \in DocNames(type_registry[u].d["schema"]) :
            expand_uri(prefix_registry', S(n)) = expand_uri(prefix_registry, S(n))
    ]_vars

====
